---- MODULE Spec2Model ----
(***************************************************************************)
(* A model of the keyless search handlers of unreal-docs-proxy-min:        *)
(*   assets    src/api/assets.js            marketplace search via DDG     *)
(*   ddg       src/api/search.js:188-221    docs search via DDG            *)
(*   sitemapA  src/api/search.js:48-110     sitemap search, MAPS by mode   *)
(*   plus1     src/unnamed/part_001:118-210 assets_plus, first revision    *)
(*   plus2     src/unnamed/part_001:347-440 assets_plus, patched revision  *)
(*   plus3     src/unnamed/part_002:142-185 assets_plus, store scrapers    *)
(*   sitemapB  src/unnamed/part_002:219-310 sitemap search, fixed list     *)
(*                                                                         *)
(* One request is followed from its arrival to its response.  A step of    *)
(* the model is the code a handler runs between two awaits: the return of  *)
(* a fetch, everything synchronous that follows it, and the issue of the   *)
(* next fetch (or the response).                                           *)
(*                                                                         *)
(* Strings are modelled by their structure.  A text (title, snippet, tag)  *)
(* is a sequence of words.  A URL or href is a record: its form (absolute  *)
(* http(s), relative, empty), hostname, path segments (a trailing "" is a  *)
(* trailing slash), the value of its uddg parameter (<<>> when absent),    *)
(* a second parameter rut, and whether the text holds percent escapes.     *)
(***************************************************************************)
EXTENDS Integers, Sequences, FiniteSets, TLC

VARIABLES
    handler,    \* which handler serves the request
    req,        \* req.query: q, only, price, license
    pc,         \* the await the handler is suspended at
    queries,    \* the search-engine queries / top-level sitemaps of the request
    qi,         \* index of the query / sitemap in progress
    aggregate,  \* records collected so far (aggregate / results / found)
    seen,       \* sitemap handlers: the Set of locations already taken
    children,   \* sitemap handlers: child sitemaps still to fetch
    direct,     \* sitemap handlers: direct entries of the current sitemap
    out,        \* store scrapers: the records extracted, before their dedupe and cut
    log,        \* every upstream fetch issued, with what it returned
    resp,       \* the response sent (status 0: none yet)
    call        \* a library function called by itself: its argument and results

vars ==
    <<handler, req, pc, queries, qi, aggregate, seen, children, direct, out, log, resp,
      call>>

----------------------------------------------------------------------------
(* Bounds of the model *)

\* how many records a long page holds beyond the largest result cap
BulkExtra == 1
\* how many fetches of one sitemap search may fail
MaxFailures == 1

----------------------------------------------------------------------------
(* Program constants *)

MARKET_HOST == "www.unrealengine.com"
ITCH_HOST == "itch.io"
DDG_HOST == "duckduckgo.com"
MAX_RESULTS_ASSETS == 10
MAX_RESULTS_PLUS == 12
MAX_RESULTS_PLUS3 == 12
MAX_CHILDREN == 3
MAX_FOUND == 10
ALLOWLIST == {"dev.epicgames.com", "docs.unrealengine.com",
              "forums.unrealengine.com", "www.unrealengine.com"}

----------------------------------------------------------------------------
(* Strings *)

\* String.prototype.toLowerCase on one word
LowerWord(w) ==
    CASE w = "Free" -> "free"
      [] w = "FREE" -> "free"
      [] w = "CC0" -> "cc0"
      [] w = "MIT" -> "mit"
      [] w = "Sword" -> "sword"
      [] w = "Pack" -> "pack"
      [] w = "Icons" -> "icons"
      [] w = "Unknown" -> "unknown"
      [] w = "Paid" -> "paid"
      [] w = "Product" -> "product"
      [] w = "Any" -> "any"
      [] OTHER -> w

ToLower(text) == [i \in DOMAIN text |-> LowerWord(text[i])]

\* proper prefixes, among the strings of the model
PrefixPairs ==
    { <<"free-sword-pack", "free">>, <<"search-tools", "search">>,
      <<"https", "http">> }

StartsWith(s, p) == s = p \/ <<s, p>> \in PrefixPairs

\* proper suffixes, among the hostnames of the model
SuffixPairs ==
    { <<"author.itch.io", "itch.io">>, <<"glitch.io", "itch.io">>,
      <<"sitemap.xml", ".xml">>, <<"index.xml", ".xml">> }

EndsWith(s, p) == s = p \/ <<s, p>> \in SuffixPairs

\* proper substrings, among the words of the model
SubstrPairs ==
    { <<"(inferred)", "inferred">>, <<"sword-pack", "sword">>,
      <<"free-sword-pack", "free">>, <<"free-sword-pack", "sword">>,
      <<"freemium", "free">>, <<"sitemap.xml", "sitemap">>,
      <<"sitemaps", "sitemap">> }

\* String.prototype.includes(t) over a text: t lies inside one of its words
Includes(text, t) ==
    \E i \in DOMAIN text : text[i] = t \/ <<text[i], t>> \in SubstrPairs

HasWord(text, w) == \E i \in DOMAIN text : text[i] = w

HasPhrase(text, ph) ==
    \E i \in 0..(Len(text) - Len(ph)) :
        \A j \in 1..Len(ph) : text[i + j] = ph[j]

\* number of characters of a token
CharLen(tok) ==
    CASE tok = "a" -> 1
      [] tok = " " -> 1
      [] tok = "ab" -> 2
      [] tok = "sword" -> 5
      [] tok = "docs" -> 4
      [] OTHER -> 3

RECURSIVE StrLen(_)
StrLen(s) == IF s = <<>> THEN 0 ELSE CharLen(Head(s)) + StrLen(Tail(s))

RECURSIVE TrimLeft(_)
TrimLeft(s) == IF s # <<>> /\ Head(s) = " " THEN TrimLeft(Tail(s)) ELSE s

RECURSIVE TrimRight(_)
TrimRight(s) ==
    IF s # <<>> /\ s[Len(s)] = " " THEN TrimRight(SubSeq(s, 1, Len(s) - 1)) ELSE s

\* String.prototype.trim
Trim(s) == TrimRight(TrimLeft(s))

----------------------------------------------------------------------------
(* URLs and hrefs *)

NoStr == [form |-> "empty", host |-> "", path |-> <<>>, uddg |-> <<>>,
          rut |-> "", pct |-> ""]

\* the null a function returns for "no URL"
Null == [NoStr EXCEPT !.form = "null"]

Abs(host, path) == [NoStr EXCEPT !.form = "abs", !.host = host, !.path = path]

\* a relative href /l/?uddg=<inner>&rut=<rut>
Wrapper(inner, rut) ==
    [NoStr EXCEPT !.form = "rel", !.path = <<"l", "">>, !.uddg = <<inner>>, !.rut = rut]

\* new URL(url) succeeds
Parses(url) == url.form = "abs"

\* pathname.includes("/" + seg + "/")
PathHasDir(path, seg) == \E i \in 1..(Len(path) - 1) : path[i] = seg

LowerPath(path) == [i \in DOMAIN path |-> LowerWord(path[i])]

\* pathname.split("/").filter(Boolean).length
Depth(path) == Cardinality({i \in DOMAIN path : path[i] # ""})

\* decodeURIComponent: a malformed escape throws (null here), an escape is
\* decoded, anything else is unchanged
DecodeURIComponent(s) ==
    IF s.pct = "bad" THEN Null
    ELSE IF s.pct = "enc" THEN [s EXCEPT !.pct = ""]
    ELSE s

normalizeHref(href) ==
    IF href.form \in {"empty", "null"} THEN Null
    ELSE IF href.form = "abs" THEN href
    ELSE IF href.path = <<"l", "">> /\ href.uddg # <<>> /\ href.uddg[1].form # "empty"
         THEN DecodeURIComponent(href.uddg[1])
    ELSE Null

isAllowed(raw) ==
    /\ Parses(raw)
    /\ \E d \in ALLOWLIST : EndsWith(raw.host, d)

isMarketplaceProduct(url) ==
    /\ Parses(url)
    /\ url.host = MARKET_HOST
    /\ PathHasDir(url.path, "marketplace")
    /\ PathHasDir(LowerPath(url.path), "product")

inferStore(url) ==
    IF Parses(url) /\ url.host = MARKET_HOST /\ PathHasDir(url.path, "marketplace")
    THEN "marketplace"
    ELSE IF Parses(url) /\ EndsWith(url.host, ITCH_HOST) THEN "itch"
    ELSE "other"

\* /\/marketplace\/.+\/product\//i
MarketProductPath(path) ==
    LET p == LowerPath(path) IN
    \E i \in DOMAIN p : \E j \in DOMAIN p :
        /\ p[i] = "marketplace"
        /\ p[j] = "product"
        /\ j < Len(p)
        /\ j >= i + 2
        /\ (j > i + 2 \/ p[i + 1] # "")

\* part_001:86 (first revision)
isProductLike1(url) ==
    IF ~Parses(url) THEN FALSE
    ELSE IF url.host = MARKET_HOST THEN MarketProductPath(url.path)
    ELSE IF EndsWith(url.host, ITCH_HOST)
         THEN /\ url.host # ITCH_HOST
              /\ ~(Len(url.path) >= 2 /\ url.path[1] = "t")
              /\ Depth(url.path) = 1
    ELSE FALSE

\* /(\/category\/|\/free|\/search|\/collections|\/page\/\d+)/
ListingPath(p) ==
    \/ PathHasDir(p, "category")
    \/ \E i \in DOMAIN p : StartsWith(p[i], "free")
    \/ \E i \in DOMAIN p : StartsWith(p[i], "search")
    \/ \E i \in DOMAIN p : StartsWith(p[i], "collections")
    \/ \E i \in 1..(Len(p) - 1) : p[i] = "page" /\ p[i + 1] \in {"1", "2"}

\* part_001:306 (patched revision)
isProductLike2(url) ==
    IF ~Parses(url) THEN FALSE
    ELSE IF url.host = MARKET_HOST
         THEN LET p == LowerPath(url.path) IN
              IF ~PathHasDir(p, "marketplace") THEN FALSE
              ELSE ~ListingPath(p)
    ELSE IF EndsWith(url.host, ITCH_HOST)
         THEN IF url.host = ITCH_HOST THEN FALSE
              ELSE IF Len(url.path) >= 2 /\ url.path[1] = "t" THEN FALSE
              ELSE Depth(url.path) <= 1
    ELSE FALSE

----------------------------------------------------------------------------
(* Records, tags and the stages of the aggregation *)

NoText == <<>>

\* one result record; a handler leaves the fields it does not use empty
Rec(title, url, store, price, license, snippet, score) ==
    [title |-> title, url |-> url, store |-> store, price |-> price,
     license |-> license, snippet |-> snippet, score |-> score]

FreeTag == <<"Free", "(inferred)">>
PaidTag == <<"Paid", "(inferred)">>
UnknownTag == <<"Unknown">>

DollarWords == {"$5", "$4.99"}
DigitWords == {"5"}

\* `${title} ${snippet}`.toLowerCase()
TagText(title, snippet) == ToLower(title \o snippet)

\* assets.js:73
inferPriceAssets(title, snippet) ==
    IF HasWord(TagText(title, snippet), "free") THEN FreeTag ELSE UnknownTag

MatchesFree(t) == HasWord(t, "free") \/ HasPhrase(t, <<"pay", "what", "you", "want">>)

NumberThen(t, units) ==
    \E i \in 1..(Len(t) - 1) : t[i] \in DigitWords /\ t[i + 1] \in units

\* part_001:102 and part_001:331
inferPrice(title, snippet) ==
    LET t == TagText(title, snippet) IN
    IF MatchesFree(t) THEN FreeTag
    ELSE IF \/ \E i \in DOMAIN t : t[i] \in DollarWords
            \/ NumberThen(t, {"usd"})
            \/ HasWord(t, "paid")
         THEN PaidTag
    ELSE UnknownTag

\* part_002:90
inferPriceItch(text) ==
    LET t == ToLower(text) IN
    IF MatchesFree(t) THEN FreeTag
    ELSE IF \/ \E i \in DOMAIN t : t[i] \in DollarWords
            \/ NumberThen(t, {"usd", "eur", "ars", "brl"})
         THEN PaidTag
    ELSE UnknownTag

\* part_001:109, part_001:338, part_002:96; none stands for the null of part_001:115
matchLicense(text, none) ==
    LET t == ToLower(text) IN
    IF HasWord(t, "cc0") \/ HasPhrase(t, <<"creative", "commons", "zero">>)
        THEN <<"CC0", "(inferred)">>
    ELSE IF HasWord(t, "mit") THEN <<"MIT", "(inferred)">>
    ELSE IF HasWord(t, "gpl") THEN <<"GPL", "(inferred)">>
    ELSE IF HasPhrase(t, <<"commercial", "use">>) THEN <<"Commercial", "Use", "(inferred)">>
    ELSE none

\* /free/i.test(price)
IsFreeTag(price) == Includes(ToLower(price), "free")

\* url.split("/").pop().replace(/[-_]/g, " ")
SlugTitle(url) ==
    IF url.path = <<>> THEN <<url.host>>
    ELSE LET last == url.path[Len(url.path)] IN
         CASE last = "" -> NoText
           [] last = "sword-pack" -> <<"sword", "pack">>
           [] last = "free-sword-pack" -> <<"free", "sword", "pack">>
           [] OTHER -> <<last>>

RECURSIVE Select(_, _)
\* Array.prototype.filter with the set of kept values
Select(s, keep) ==
    IF s = <<>> THEN <<>>
    ELSE IF Head(s) \in keep THEN <<Head(s)>> \o Select(Tail(s), keep)
    ELSE Select(Tail(s), keep)

RECURSIVE DedupeFrom(_, _)
DedupeFrom(s, seenUrls) ==
    IF s = <<>> THEN <<>>
    ELSE IF Head(s).url \in seenUrls THEN DedupeFrom(Tail(s), seenUrls)
    ELSE <<Head(s)>> \o DedupeFrom(Tail(s), seenUrls \cup {Head(s).url})

\* const seen = new Set(); xs.filter(r => seen.has(r.url) ? false : (seen.add(r.url), true))
DedupeByUrl(s) == DedupeFrom(s, {})

Range(s) == {s[i] : i \in DOMAIN s}

\* Array.prototype.slice(0, n)
Slice(s, n) == SubSeq(s, 1, IF Len(s) < n THEN Len(s) ELSE n)

\* the words of the model in collation order (String.prototype.localeCompare)
Collation ==
    <<"", "assets", "Assets", "icons", "Icons", "p01", "p02", "p03", "p04", "p05",
      "p06", "p07", "p08", "p09", "p10", "p11", "p12", "p13", "p14", "p15",
      "pack", "Pack", "sword", "Sword", "unreal", "weapons", "Weapons", "x">>

WordRank(w) ==
    IF \E i \in DOMAIN Collation : Collation[i] = w
    THEN CHOOSE i \in DOMAIN Collation : Collation[i] = w
    ELSE Len(Collation) + 1

RECURSIVE localeCompare(_, _)
\* a.localeCompare(b): negative, zero or positive
localeCompare(a, b) ==
    IF a = <<>> /\ b = <<>> THEN 0
    ELSE IF a = <<>> THEN -1
    ELSE IF b = <<>> THEN 1
    ELSE IF WordRank(Head(a)) # WordRank(Head(b))
         THEN WordRank(Head(a)) - WordRank(Head(b))
    ELSE localeCompare(Tail(a), Tail(b))

storeRank(s) == IF s = "marketplace" THEN 0 ELSE IF s = "itch" THEN 1 ELSE 2
priceRank(p) == IF IsFreeTag(p) THEN 0 ELSE 1

\* the comparator of part_001:193, part_001:423 and part_002:170
compareAssets(a, b) ==
    LET x == storeRank(a.store) - storeRank(b.store)
        y == priceRank(a.price) - priceRank(b.price)
    IN IF x # 0 THEN x ELSE IF y # 0 THEN y ELSE localeCompare(a.title, b.title)

RECURSIVE InsertBy(_, _, _)
\* r goes after every element that does not compare greater than it (stable)
InsertBy(s, r, byScore) ==
    IF s = <<>> THEN <<r>>
    ELSE IF (IF byScore THEN Head(s).score - r.score ELSE compareAssets(r, Head(s))) < 0
         THEN <<r>> \o s
    ELSE <<Head(s)>> \o InsertBy(Tail(s), r, byScore)

RECURSIVE SortFrom(_, _, _)
SortFrom(done, todo, byScore) ==
    IF todo = <<>> THEN done
    ELSE SortFrom(InsertBy(done, Head(todo), byScore), Tail(todo), byScore)

\* no sort at all: the list is left in the order it was collected
sortAssetsKeepOrder(s) == s

\* Array.prototype.sort (stable) with the assets comparator
sortAssets(s) == SortFrom(<<>>, s, FALSE)

RECURSIVE InsertTiesFirst(_, _)
\* r goes in front of the elements of equal score
InsertTiesFirst(s, r) ==
    IF s = <<>> THEN <<r>>
    ELSE IF Head(s).score - r.score <= 0 THEN <<r>> \o s
    ELSE <<Head(s)>> \o InsertTiesFirst(Tail(s), r)

RECURSIVE SortTiesFirst(_, _)
SortTiesFirst(done, todo) ==
    IF todo = <<>> THEN done
    ELSE SortTiesFirst(InsertTiesFirst(done, Head(todo)), Tail(todo))

\* a sort by descending score that is not stable: records of equal score come
\* out in the reverse of the order they were found in
sortByScoreUnstable(s) == SortTiesFirst(<<>>, s)

\* found.sort((a, b) => b.score - a.score)
sortByScore(s) == SortFrom(<<>>, s, TRUE)

----------------------------------------------------------------------------
(* What the upstream sources can answer *)

ProductUrl(slug) == Abs(MARKET_HOST, <<"marketplace", "en-US", "product", slug>>)

UrlA == ProductUrl("sword-pack")
UrlCategory == Abs(MARKET_HOST, <<"marketplace", "en-US", "category", "weapons">>)
UrlAssets == Abs(MARKET_HOST, <<"marketplace", "en-US", "assets">>)
UrlItchProject == Abs("author.itch.io", <<"icons">>)
UrlItchTag == Abs(ITCH_HOST, <<"t", "unreal">>)
UrlOther == Abs("example.com", <<"x">>)
\* an absolute redirect wrapper https://duckduckgo.com/l/?uddg=...
AbsWrapperA == [Abs(DDG_HOST, <<"l", "">>) EXCEPT !.uddg = <<UrlA>>]
\* a relative link that is no redirect wrapper
RelOther == [NoStr EXCEPT !.form = "rel", !.path = <<"html", "">>]

\* an anchor of a search-results page: primary says it matches
\* "a.result__a, .result__title a", inLinks that it matches "#links a, .results a"
Anchor(title, href, snippet, primary, inLinks) ==
    [title |-> title, href |-> href, snippet |-> snippet,
     primary |-> primary, inLinks |-> inLinks]

AnchorA1 == Anchor(<<"Sword", "Pack">>, Wrapper(UrlA, "1"), <<"Free", "CC0">>, TRUE, TRUE)
AnchorA2 == Anchor(<<"Sword", "Pack">>, Wrapper(UrlA, "2"), <<"Free", "CC0">>, TRUE, TRUE)
AnchorADirect == Anchor(<<"Sword", "Pack">>, UrlA, <<"$5">>, TRUE, TRUE)
AnchorALoose == Anchor(NoText, Wrapper(UrlA, "1"), <<"$5">>, FALSE, TRUE)
AnchorCategory == Anchor(<<"Weapons">>, UrlCategory, NoText, TRUE, TRUE)
AnchorAssets == Anchor(<<"Assets">>, UrlAssets, NoText, TRUE, TRUE)
AnchorItch == Anchor(<<"Icons">>, UrlItchProject, <<"free", "MIT">>, TRUE, TRUE)
AnchorItchTag == Anchor(<<"unreal">>, UrlItchTag, NoText, TRUE, TRUE)
AnchorOther == Anchor(<<"x">>, UrlOther, <<"Free">>, TRUE, TRUE)
AnchorAbsWrapper == Anchor(<<"Sword", "Pack">>, AbsWrapperA, NoText, TRUE, TRUE)
AnchorRelOther == Anchor(<<"x">>, RelOther, NoText, TRUE, TRUE)

SlugNames ==
    <<"p01", "p02", "p03", "p04", "p05", "p06", "p07", "p08", "p09", "p10",
      "p11", "p12", "p13", "p14", "p15">>

\* a long page: more product rows than any result cap, only the last one free
BulkLen == MAX_RESULTS_PLUS + BulkExtra

BulkPage ==
    [i \in 1..BulkLen |->
        Anchor(<<SlugNames[i]>>, ProductUrl(SlugNames[i]),
               IF i = BulkLen THEN <<"Free">> ELSE <<"$5">>, TRUE, TRUE)]

\* the search-results pages an upstream answer can hold
Pages ==
    { <<>>,
      <<AnchorA1, AnchorA2>>,
      <<AnchorADirect, AnchorAssets>>,
      <<AnchorItch, AnchorAbsWrapper, AnchorItchTag>>,
      <<AnchorCategory, AnchorOther, AnchorRelOther>>,
      <<AnchorALoose>>,
      BulkPage }

----------------------------------------------------------------------------
(* parseDDGHtml, per handler *)

RECURSIVE MapAnchors(_, _, _)
\* the rows of one selector pass: keep says which anchors the selector matches,
\* add which record (if any) an anchor adds to out
MapAnchors(page, h, pass) ==
    IF page = <<>> THEN <<>>
    ELSE LET a == Head(page)
             url == normalizeHref(a.href)
             matched ==
                 CASE pass = "primary" -> a.primary
                   [] pass = "uddg" -> a.href.form = "rel" /\ a.href.path = <<"l", "">>
                                       /\ a.href.uddg # <<>>
                   [] OTHER -> a.inLinks
             snippet == IF pass = "primary" THEN a.snippet ELSE NoText
             kept ==
                 /\ matched
                 /\ url.form # "null"
                 /\ (h = "assets" => isMarketplaceProduct(url))
                 /\ (h = "ddg" => isAllowed(url))
                 /\ (h = "ddg" /\ pass # "primary" => a.title # NoText)
         IN (IF kept THEN <<Rec(a.title, url, "", NoText, NoText, snippet, 0)>> ELSE <<>>)
            \o MapAnchors(Tail(page), h, pass)

\* assets.js:37, search.js:153, part_001:37, part_001:248
parseDDGHtml(h, page) ==
    LET first == MapAnchors(page, h, "primary")
        second == IF first = <<>> /\ h = "plus2" THEN MapAnchors(page, h, "uddg") ELSE first
        third == IF second = <<>> THEN MapAnchors(page, h, "links") ELSE second
    IN DedupeByUrl(third)

----------------------------------------------------------------------------
(* The request *)

Absent == "(absent)"
QMissing == <<Absent>>

DdgHandlers == {"assets", "ddg", "plus1", "plus2"}
PlusHandlers == {"plus1", "plus2", "plus3"}
SitemapHandlers == {"sitemapA", "sitemapB"}
Handlers == DdgHandlers \cup {"plus3"} \cup SitemapHandlers

\* q as a sequence of tokens (words and single spaces)
BadQs == {QMissing, <<>>, <<"a">>, <<" ", "a", " ">>}
GoodQs(h) == IF h \in SitemapHandlers THEN {<<" ", "ab">>, <<"sword">>} ELSE {<<" ", "ab">>}

\* the parameters a handler destructures from req.query, with the values tried
OnlyValues(h) ==
    IF h \in PlusHandlers THEN {Absent, "marketplace", "itch"}
    ELSE IF h = "sitemapA" THEN {Absent, "forums", "all"}
    ELSE {Absent}
PriceValues(h) ==
    IF h \in PlusHandlers \cup {"assets"} THEN {Absent, "free", "paid", "any"} ELSE {Absent}
LicenseValues(h) == IF h \in PlusHandlers THEN {Absent, "CC0"} ELSE {Absent}

\* !q || q.trim().length < 2
BadQueryTrimless(q) == q = QMissing \/ q = <<>> \/ StrLen(q) < 2
BadQuery(q) == q = QMissing \/ q = <<>> \/ StrLen(Trim(q)) < 2

\* const { only = "all", price = "any" } = req.query
onlyOf(h, r) == IF r.only = Absent /\ h \in PlusHandlers THEN "all" ELSE r.only
priceOf(h, r) == IF r.price = Absent /\ h \in PlusHandlers THEN "any" ELSE r.price

\* the search-engine queries a request issues, in order
QueriesOf(h, r) ==
    LET only == onlyOf(h, r)
        mkt == only \in {"marketplace", "all"}
        itch == only \in {"itch", "all"}
    IN CASE h = "assets" -> <<"site:market /marketplace/ q">>
         [] h = "ddg" -> <<"q">>
         [] h = "plus1" -> (IF mkt THEN <<"site:market /marketplace/ q">> ELSE <<>>)
                           \o (IF itch THEN <<"site:itch unreal q">> ELSE <<>>)
         [] h = "plus2" -> (IF mkt THEN <<"site:market inurl:marketplace/product q",
                                          "site:market inurl:marketplace q">> ELSE <<>>)
                           \o (IF itch THEN <<"site:itch unreal q">> ELSE <<>>)
         [] OTHER -> <<>>

----------------------------------------------------------------------------
(* The synchronous stages of the search-engine handlers *)

isProductLike(h, url) == IF h = "plus1" THEN isProductLike1(url) ELSE isProductLike2(url)

TitleOr(title, url) == IF title # NoText THEN title ELSE SlugTitle(url)

RECURSIVE Classify(_, _)
\* part_001:155-169 and part_001:385-400: the records a batch adds to aggregate
Classify(h, batch) ==
    IF batch = <<>> THEN <<>>
    ELSE LET r == Head(batch)
             store == inferStore(r.url)
             lic == matchLicense(r.title \o r.snippet, UnknownTag)
         IN (IF h \in {"plus1", "plus2"}
             THEN IF store = "other" \/ ~isProductLike(h, r.url) THEN <<>>
                  ELSE <<Rec(TitleOr(r.title, r.url), r.url, store,
                             inferPrice(r.title, r.snippet), lic, NoText, 0)>>
             ELSE <<r>>)
            \o Classify(h, Tail(batch))

KeepPrice(wantFree, s) ==
    Select(s, {r \in Range(s) : IF wantFree THEN IsFreeTag(r.price) ELSE ~IsFreeTag(r.price)})

KeepLicense(license, s) ==
    Select(s, {r \in Range(s) : Includes(ToLower(r.license), LowerWord(license))})

Ok(results, count) == [status |-> 200, count |-> count, results |-> results]
Error(status) == [status |-> status, count |-> 0, results |-> <<>>]
NoResponse == Error(0)

RECURSIVE AssetItems(_)
\* assets.js:107-111
AssetItems(s) ==
    IF s = <<>> THEN <<>>
    ELSE <<Rec(TitleOr(Head(s).title, Head(s).url), Head(s).url, "",
               inferPriceAssets(Head(s).title, Head(s).snippet), NoText, NoText, 0)>>
         \o AssetItems(Tail(s))

\* assets.js:107-118
FinishAssets(r, results) ==
    LET items == AssetItems(Slice(results, MAX_RESULTS_ASSETS))
        kept == IF r.price # Absent /\ LowerWord(r.price) = "free"
                THEN Select(items, {i \in Range(items) : Includes(ToLower(i.price), "free")})
                ELSE items
    IN Ok(kept, Len(kept))

\* part_001:172-206 and part_001:403-436
FinishPlus(h, r, agg) ==
    LET price == priceOf(h, r)
        f1 == IF price # "any" THEN KeepPrice(LowerWord(price) = "free", agg) ELSE agg
        f2 == IF r.license # Absent THEN KeepLicense(r.license, f1) ELSE f1
        results == Slice(sortAssets(DedupeByUrl(f2)), MAX_RESULTS_PLUS)
    IN Ok(results, Len(results))

Finish(h, r, agg) ==
    CASE h = "assets" -> FinishAssets(r, agg)
      [] h = "ddg" -> Ok(agg, Len(agg))
      [] OTHER -> FinishPlus(h, r, agg)

----------------------------------------------------------------------------
(* The store scrapers of the third assets_plus revision (part_002) *)

\* one entry of apolloState: its key, title || name || assetTitle, the slug and
\* the three price fields
Node(key, title, slug, display, isFree) ==
    [key |-> key, title |-> title, slug |-> slug, display |-> display, isFree |-> isFree]

\* key.toLowerCase().includes("product" | "asset" | "offer")
KeyHints(key) == key \in {"Product:1", "Product:2", "Asset:9", "Offer:3"}

BulkNodes ==
    [i \in 1..BulkLen |->
        Node("Product:1", <<SlugNames[i]>>, SlugNames[i],
             IF i = BulkLen THEN NoText ELSE <<"$5">>, i = BulkLen)]

\* the embedded page data of a marketplace search page: no script block, a
\* block that is not JSON, or the entries of apolloState
MarketDocs ==
    { [script |-> "none", nodes |-> <<>>],
      [script |-> "bad", nodes |-> <<>>],
      [script |-> "ok",
       nodes |-> << Node("Product:1", <<"Sword", "Pack">>, "sword-pack", <<"$5">>, FALSE),
                    Node("ROOT_QUERY", <<"x">>, "x", NoText, FALSE),
                    Node("Offer:3", NoText, "weapons", NoText, TRUE),
                    Node("Asset:9", <<"Sword">>, "sword-pack", NoText, TRUE),
                    Node("Product:2", <<"Icons">>, "icons", NoText, TRUE) >>],
      [script |-> "ok", nodes |-> BulkNodes] }

RECURSIVE MarketProducts(_)
\* part_002:50-81
MarketProducts(nodes) ==
    IF nodes = <<>> THEN <<>>
    ELSE LET v == Head(nodes)
             isProduct == v.title # NoText /\ v.slug # "" /\ KeyHints(v.key)
             price == IF v.display # NoText THEN v.display
                      ELSE IF v.isFree THEN <<"Free">> ELSE UnknownTag
         IN (IF isProduct
             THEN <<Rec(v.title, ProductUrl(v.slug), "marketplace", price,
                        UnknownTag, NoText, 0)>>
             ELSE <<>>)
            \o MarketProducts(Tail(nodes))

\* part_002:33-81: the out list of searchMarketplace
marketOut(doc) == IF doc.script # "ok" THEN <<>> ELSE MarketProducts(doc.nodes)

\* a .game_cell of an itch.io search page
Cell(title, href, priceText, snippet) ==
    [title |-> title, href |-> href, priceText |-> priceText, snippet |-> snippet]

BulkCells ==
    [i \in 1..BulkLen |->
        Cell(<<SlugNames[i]>>, Abs("author.itch.io", <<SlugNames[i]>>),
             IF i = BulkLen THEN <<"Free">> ELSE <<"$5">>, NoText)]

ItchDocs ==
    { <<>>,
      << Cell(<<"Icons">>, UrlItchProject, <<"$5">>, <<"CC0">>),
         Cell(<<"x">>, NoStr, NoText, NoText),
         Cell(<<"unreal">>, [NoStr EXCEPT !.form = "rel", !.path = <<"t", "unreal">>],
              NoText, <<"free">>) >>,
      << Cell(<<"Sword", "Pack">>, UrlA, <<"Free">>, NoText),
         Cell(<<"Icons">>, UrlItchProject, NoText, <<"MIT">>),
         Cell(<<"x">>, UrlOther, NoText, NoText) >>,
      << Cell(<<"Sword", "Pack">>, AbsWrapperA, <<"$5">>, NoText) >>,
      BulkCells }

\* href.startsWith("http") ? href : `https://itch.io${href}`
ItchUrl(href) ==
    IF href.form = "abs" THEN href ELSE [href EXCEPT !.form = "abs", !.host = ITCH_HOST]

RECURSIVE ItchCells(_)
\* part_002:112-133
ItchCells(cells) ==
    IF cells = <<>> THEN <<>>
    ELSE LET c == Head(cells) IN
         (IF c.href.form \in {"empty", "null"} THEN <<>>
          ELSE <<Rec(c.title, ItchUrl(c.href), "itch",
                     inferPriceItch(c.priceText \o c.snippet),
                     matchLicense(c.title \o c.snippet, UnknownTag), NoText, 0)>>)
         \o ItchCells(Tail(cells))

\* part_002:157-181
FinishPlus3(r, results) ==
    LET price == priceOf("plus3", r)
        f1 == IF price # "any" THEN KeepPrice(LowerWord(price) = "free", results) ELSE results
        f2 == IF r.license # Absent THEN KeepLicense(r.license, f1) ELSE f1
        sorted == sortAssets(f2)
    IN Ok(Slice(sorted, MAX_RESULTS_PLUS3), Len(sorted))

----------------------------------------------------------------------------
(* The sitemap search handlers (search.js:48 and part_002:219) *)

SitemapUrl(host, path) == Abs(host, path)

SmDev == SitemapUrl("dev.epicgames.com", <<"sitemap.xml">>)
SmDevDocs == SitemapUrl("dev.epicgames.com", <<"documentation", "en-us", "sitemap.xml">>)
SmDocs == SitemapUrl("docs.unrealengine.com", <<"sitemap.xml">>)
SmForums == SitemapUrl("forums.unrealengine.com", <<"sitemap.xml">>)
SmMarket == SitemapUrl("www.unrealengine.com", <<"sitemap.xml">>)

\* part_002:191
SITEMAPS == <<SmDev, SmDevDocs, SmDocs, SmForums, SmMarket>>

\* search.js:5 and search.js:53
MAPS(only) ==
    CASE only = "forums" -> <<SmForums>>
      [] only = "marketplace" -> <<SmMarket>>
      [] only = "all" -> SITEMAPS
      [] OTHER -> <<SmDevDocs, SmDocs>>

\* a sitemap document: the <loc> values of a sitemapindex or of a urlset
IndexDoc(locs) == [index |-> locs, urlset |-> <<>>]
UrlsetDoc(locs) == [index |-> <<>>, urlset |-> locs]

\* child sitemaps; the name of the last one does not look like a sitemap
Child(i) == SitemapUrl("dev.epicgames.com", <<"sitemaps", SlugNames[i], "sitemap.xml">>)
ChildOddName == SitemapUrl("forums.unrealengine.com", <<"threads", "index.xml">>)

\* /sitemap.*\.xml(\.gz)?$/i on a location
LooksLikeSitemap(loc) ==
    /\ loc.path # <<>>
    /\ Includes(ToLower(<<loc.host>> \o loc.path), "sitemap")
    /\ EndsWith(LowerWord(loc.path[Len(loc.path)]), ".xml")

\* pages listed by the sitemaps
CommunityPage(i) == Abs("dev.epicgames.com", <<"documentation", "sword", SlugNames[i]>>)
DocsPage(i) == Abs("docs.unrealengine.com", <<"en-us", SlugNames[i]>>)

FoundLen == MAX_FOUND + BulkExtra

\* what each location answers when its fetch succeeds
TopDoc(loc) ==
    CASE loc = SmDev -> IndexDoc(<<Child(1), Child(2), Child(3), Child(4), Child(5),
                                   SmDevDocs>>)
      [] loc = SmDevDocs -> UrlsetDoc([i \in 1..FoundLen |-> DocsPage(i)])
      [] loc = SmDocs -> UrlsetDoc(<<DocsPage(1), Abs("docs.unrealengine.com", <<"sword">>)>>)
      [] loc = SmForums -> IndexDoc(<<ChildOddName, Child(2), Child(3), Child(4)>>)
      [] loc = SmMarket -> UrlsetDoc(<<UrlA, UrlAssets, UrlOther>>)
      [] loc = ChildOddName -> UrlsetDoc(<<CommunityPage(6)>>)
      [] loc = Child(3) -> UrlsetDoc(<<CommunityPage(3), CommunityPage(1)>>)
      [] OTHER -> IF \E i \in 1..5 : loc = Child(i)
                  THEN UrlsetDoc(<<CommunityPage(CHOOSE i \in 1..5 : loc = Child(i))>>)
                  ELSE UrlsetDoc(<<>>)

\* search.js:21, part_002:199, then .split(" ").filter(Boolean)
Terms(q) ==
    LET words == Select(q, {w \in Range(q) : w # " " /\ ~StartsWith(w, "site:")})
    IN ToLower(words)

\* the text score() searches: (title + " " + url).toLowerCase()
ScoreText(url, title) == ToLower(title \o <<url.host>> \o url.path)

RECURSIVE TermScore(_, _)
TermScore(text, terms) ==
    IF terms = <<>> THEN 0
    ELSE (IF Includes(text, Head(terms)) THEN 2 ELSE 0)
         + (IF Head(terms) \in {"blueprint", "blueprints"} THEN 1 ELSE 0)
         + TermScore(text, Tail(terms))

UnderDevDocs(url) ==
    url.host = "dev.epicgames.com" /\ url.path # <<>> /\ url.path[1] = "documentation"
UnderMarketplace(url) ==
    url.host = MARKET_HOST /\ url.path # <<>> /\ StartsWith(url.path[1], "marketplace")

\* search.js:25
scoreA(url, title, terms) ==
    TermScore(ScoreText(url, title), terms)
    + (IF UnderDevDocs(url) THEN 3 ELSE 0)
    + (IF url.host = "docs.unrealengine.com" THEN 3 ELSE 0)
    - (IF url.host = "forums.unrealengine.com" THEN 2 ELSE 0)
    - (IF UnderMarketplace(url) THEN 1 ELSE 0)

\* part_002:204
scoreB(url, title, terms) ==
    TermScore(ScoreText(url, title), terms)
    + (IF UnderDevDocs(url) THEN 2 ELSE 0)
    + (IF url.host = "docs.unrealengine.com" THEN 2 ELSE 0)

score(h, url, title, terms) ==
    IF h = "sitemapA" THEN scoreA(url, title, terms) ELSE scoreB(url, title, terms)

RECURSIVE Take(_, _, _, _, _)
\* search.js:83-89, 93-99 and part_002:267-277, 283-292: the locations of one
\* document are scored and the new ones with a positive score are kept
Take(h, locs, terms, sn, found) ==
    IF locs = <<>> THEN [seen |-> sn, found |-> found]
    ELSE LET loc == Head(locs)
             title == SlugTitle(loc)
             sc == score(h, loc, title, terms)
         IN IF loc.form \in {"empty", "null"} \/ loc \in sn \/ sc <= 0
            THEN Take(h, Tail(locs), terms, sn, found)
            ELSE Take(h, Tail(locs), terms, sn \cup {loc},
                      Append(found, Rec(title, loc, "", NoText, NoText, NoText, sc)))

\* the child sitemaps a top-level document makes the handler fetch
\* search.js:65-69 (with the falsy ones skipped at :79) and part_002:258
childListA(doc) ==
    LET firsts == Slice(doc.index, MAX_CHILDREN)
    IN Select(firsts, {c \in Range(firsts) : c.form \notin {"empty", "null"}})

\* part_002:241-255
urlEntriesB(doc) ==
    LET all == doc.index \o doc.urlset
    IN Select(all, {e \in Range(all) : e.form \notin {"empty", "null"}})

childListB(doc) ==
    LET es == urlEntriesB(doc)
    IN Slice(Select(es, {e \in Range(es) : LooksLikeSitemap(e)}), MAX_CHILDREN)

childList(h, doc) == IF h = "sitemapA" THEN childListA(doc) ELSE childListB(doc)

\* the entries scored after the children: search.js:71-75, part_002:283
directOf(h, doc) == IF h = "sitemapA" THEN doc.urlset ELSE urlEntriesB(doc)

RECURSIVE Published(_)
\* .map(({title, url}) => ({ title: title.trim() || url, url, snippet: "" }))
Published(found) ==
    IF found = <<>> THEN <<>>
    ELSE <<Rec(IF Head(found).title # NoText THEN Head(found).title
               ELSE <<Head(found).url.host>>,
               Head(found).url, "", NoText, NoText, NoText, 0)>>
         \o Published(Tail(found))

\* search.js:102-106 and part_002:298-306
FinishSitemap(found) ==
    LET results == Published(Slice(sortByScore(found), MAX_FOUND))
    IN Ok(results, Len(results))

----------------------------------------------------------------------------
(* Fetches *)

Pending == -1
Threw == -2
NotOk == -3

\* a fetch: kind is "primary" (GET of a query), "fallback" (POST of a query),
\* "store" (a store page), "sitemap" (a top-level sitemap) or "child" (a child
\* sitemap); of is the index of the query or sitemap it is issued for; n is what
\* it returned: Pending, Threw, NotOk or the number of candidates extracted
Issue(kind, of, target) == [kind |-> kind, of |-> of, target |-> target, n |-> Pending]

\* the log with the fetch in flight (its last entry) answered
Answered(n) == [log EXCEPT ![Len(log)].n = n]

----------------------------------------------------------------------------
(* The handlers *)

\* no library function is being called by itself
NoCall == [fn |-> "", arg |-> NoStr, val |-> <<>>]

Init ==
    /\ handler \in Handlers
    /\ \E q \in BadQs \cup GoodQs(handler), only \in OnlyValues(handler),
          price \in PriceValues(handler), license \in LicenseValues(handler) :
          req = [q |-> q, only |-> only, price |-> price, license |-> license]
    /\ pc = "start"
    /\ queries = <<>>
    /\ qi = 0
    /\ aggregate = <<>>
    /\ seen = {}
    /\ children = <<>>
    /\ direct = <<>>
    /\ out = <<>>
    /\ log = <<>>
    /\ resp = NoResponse
    /\ call = NoCall

\* the request is refused: res.status(400)
Reject ==
    /\ pc = "start"
    /\ BadQuery(req.q)
    /\ resp' = Error(400)
    /\ pc' = "done"
    /\ UNCHANGED <<call, handler, req, queries, qi, aggregate, seen, children, direct, out, log>>

\* a search-engine handler accepts the request and issues its first GET
StartDdg ==
    /\ pc = "start"
    /\ handler \in DdgHandlers
    /\ ~BadQuery(req.q)
    /\ queries' = QueriesOf(handler, req)
    /\ IF queries' = <<>>
       THEN /\ resp' = Finish(handler, req, <<>>)
            /\ pc' = "done"
            /\ UNCHANGED <<qi, log>>
       ELSE /\ qi' = 1
            /\ log' = <<Issue("primary", 1, queries'[1])>>
            /\ pc' = "get"
            /\ UNCHANGED resp
    /\ UNCHANGED <<call, handler, req, aggregate, seen, children, direct, out>>

\* the batch of the current query is classified; then the next query's GET is
\* issued or, after the last query, the response is built and sent
Absorb(batch, answered) ==
    /\ aggregate' = aggregate \o Classify(handler, batch)
    /\ IF qi < Len(queries)
       THEN /\ qi' = qi + 1
            /\ log' = Append(answered, Issue("primary", qi + 1, queries[qi + 1]))
            /\ pc' = "get"
            /\ UNCHANGED resp
       ELSE /\ resp' = Finish(handler, req, aggregate')
            /\ log' = answered
            /\ pc' = "done"
            /\ UNCHANGED qi

\* GetReturns without the retry: an empty batch is absorbed as it is
GetReturnsNoFallback ==
    /\ pc = "get"
    /\ \E page \in Pages :
          LET batch == parseDDGHtml(handler, page) IN
          Absorb(batch, Answered(Len(batch)))
    /\ UNCHANGED <<call, handler, req, queries, seen, children, direct, out>>

\* the GET of the current query answers with a page
GetReturns ==
    /\ pc = "get"
    /\ \E page \in Pages :
          LET batch == parseDDGHtml(handler, page) IN
          IF batch = <<>>
          THEN /\ log' = Append(Answered(0), Issue("fallback", qi, queries[qi]))
               /\ pc' = "post"
               /\ UNCHANGED <<qi, aggregate, resp>>
          ELSE Absorb(batch, Answered(Len(batch)))
    /\ UNCHANGED <<call, handler, req, queries, seen, children, direct, out>>

\* PostReturns retrying: an empty fallback batch is followed by another POST
PostReturnsRetrying ==
    /\ pc = "post"
    /\ \E page \in Pages :
          LET batch == parseDDGHtml(handler, page) IN
          IF batch = <<>>
          THEN /\ log' = Append(Answered(0), Issue("fallback", qi, queries[qi]))
               /\ pc' = "post"
               /\ UNCHANGED <<qi, aggregate, resp>>
          ELSE Absorb(batch, Answered(Len(batch)))
    /\ UNCHANGED <<call, handler, req, queries, seen, children, direct, out>>

\* the POST fallback of the current query answers with a page
PostReturns ==
    /\ pc = "post"
    /\ \E page \in Pages :
          LET batch == parseDDGHtml(handler, page) IN
          Absorb(batch, Answered(Len(batch)))
    /\ UNCHANGED <<call, handler, req, queries, seen, children, direct, out>>

\* the fetch in flight fails (network error): await throws into the catch block
FetchThrows ==
    /\ pc \in {"get", "post"}
    /\ log' = Answered(Threw)
    /\ pc' = "catch"
    /\ UNCHANGED <<call, handler, req, queries, qi, aggregate, seen, children, direct, out, resp>>

\* catch (e) { res.status(500) }
Catch ==
    /\ pc = "catch"
    /\ resp' = Error(500)
    /\ pc' = "done"
    /\ UNCHANGED <<call, handler, req, queries, qi, aggregate, seen, children, direct, out, log>>

\* the store scraper handler accepts the request and fetches its first store page
StartPlus3 ==
    /\ pc = "start"
    /\ handler = "plus3"
    /\ ~BadQuery(req.q)
    /\ LET only == onlyOf(handler, req) IN
       /\ queries' = (IF only \in {"marketplace", "all"} THEN <<"MARKET_SEARCH">> ELSE <<>>)
                     \o (IF only \in {"itch", "all"} THEN <<"ITCH_SEARCH">> ELSE <<>>)
       /\ qi' = 1
       /\ log' = <<Issue("store", 1, queries'[1])>>
       /\ pc' = "store"
    /\ UNCHANGED <<call, handler, req, aggregate, seen, children, direct, out, resp>>

\* a store page answers: its records are pushed; then the next store is
\* fetched or the response is built and sent
StoreReturns ==
    /\ pc = "store"
    /\ \E raw \in IF queries[qi] = "MARKET_SEARCH"
                  THEN {marketOut(d) : d \in MarketDocs}
                  ELSE {ItchCells(d) : d \in ItchDocs} :
          LET found == Slice(DedupeByUrl(raw), MAX_RESULTS_PLUS3) IN
          /\ out' = out \o raw
          /\ aggregate' = aggregate \o found
          /\ IF qi < Len(queries)
             THEN /\ qi' = qi + 1
                  /\ log' = Append(Answered(Len(found)), Issue("store", qi + 1, queries[qi + 1]))
                  /\ pc' = "store"
                  /\ UNCHANGED resp
             ELSE /\ resp' = FinishPlus3(req, aggregate')
                  /\ log' = Answered(Len(found))
                  /\ pc' = "done"
                  /\ UNCHANGED qi
    /\ UNCHANGED <<call, handler, req, queries, seen, children, direct>>

\* a store fetch fails: await throws into the handler's catch block
StoreThrows ==
    /\ pc = "store"
    /\ log' = Answered(Threw)
    /\ pc' = "catch"
    /\ UNCHANGED <<call, handler, req, queries, qi, aggregate, seen, children, direct, out, resp>>

\* a sitemap handler accepts the request and fetches its first sitemap
StartSitemap ==
    /\ pc = "start"
    /\ handler \in SitemapHandlers
    /\ ~BadQuery(req.q)
    /\ queries' = (IF handler = "sitemapA" THEN MAPS(req.only) ELSE SITEMAPS)
    /\ qi' = 1
    /\ log' = <<Issue("sitemap", 1, queries'[1])>>
    /\ pc' = "top"
    /\ UNCHANGED <<call, handler, req, aggregate, seen, children, direct, out, resp>>

Failures == Cardinality({i \in DOMAIN log : log[i].n \in {Threw, NotOk}})

\* the current sitemap is finished with seen/found as given: the next sitemap
\* is fetched or, after the last one, the response is built and sent
NextSitemap(answered, sn, found) ==
    /\ seen' = sn
    /\ aggregate' = found
    /\ children' = <<>>
    /\ direct' = <<>>
    /\ IF qi < Len(queries)
       THEN /\ qi' = qi + 1
            /\ log' = Append(answered, Issue("sitemap", qi + 1, queries[qi + 1]))
            /\ pc' = "top"
            /\ UNCHANGED resp
       ELSE /\ resp' = FinishSitemap(found)
            /\ log' = answered
            /\ pc' = "done"
            /\ UNCHANGED qi

\* the direct entries of the current sitemap are scored, then NextSitemap
AfterChildren(answered, entries, sn, found) ==
    LET t == Take(handler, entries, Terms(req.q), sn, found)
    IN NextSitemap(answered, t.seen, t.found)

\* a top-level sitemap answers 2xx with its document
TopReturns ==
    /\ pc = "top"
    /\ LET doc == TopDoc(queries[qi])
           kids == childList(handler, doc)
           answered == Answered(Len(doc.index) + Len(doc.urlset))
       IN IF kids # <<>>
          THEN /\ children' = kids
               /\ direct' = directOf(handler, doc)
               /\ log' = Append(answered, Issue("child", qi, kids[1]))
               /\ pc' = "child"
               /\ UNCHANGED <<qi, aggregate, seen, resp>>
          ELSE AfterChildren(answered, directOf(handler, doc), seen, aggregate)
    /\ UNCHANGED <<call, handler, req, queries, out>>

\* the child sitemap in flight has been dealt with, leaving seen/found as given
NextChild(answered, sn, found) ==
    IF Len(children) > 1
    THEN /\ children' = Tail(children)
         /\ log' = Append(answered, Issue("child", qi, children[2]))
         /\ seen' = sn
         /\ aggregate' = found
         /\ pc' = "child"
         /\ UNCHANGED <<qi, direct, resp>>
    ELSE AfterChildren(answered, direct, sn, found)

\* a child sitemap answers 2xx with its document
ChildReturns ==
    /\ pc = "child"
    /\ LET doc == TopDoc(children[1])
           t == Take(handler, doc.urlset, Terms(req.q), seen, aggregate)
       IN NextChild(Answered(Len(doc.urlset)), t.seen, t.found)
    /\ UNCHANGED <<call, handler, req, queries, out>>

\* a sitemap fetch answers with a non-2xx status: the document is skipped
SitemapNotOk ==
    /\ pc \in {"top", "child"}
    /\ Failures < MaxFailures
    /\ IF pc = "top"
       THEN NextSitemap(Answered(NotOk), seen, aggregate)
       ELSE NextChild(Answered(NotOk), seen, aggregate)
    /\ UNCHANGED <<call, handler, req, queries, out>>

\* a sitemap fetch fails: search.js has no try around it, so await throws into
\* the handler's catch block; part_002:234 and :260 skip the document
SitemapThrows ==
    /\ pc \in {"top", "child"}
    /\ Failures < MaxFailures
    /\ IF handler = "sitemapA"
       THEN /\ log' = Answered(Threw)
            /\ pc' = "catch"
            /\ UNCHANGED <<qi, aggregate, seen, children, direct, out, resp>>
       ELSE IF pc = "top"
            THEN NextSitemap(Answered(Threw), seen, aggregate)
            ELSE NextChild(Answered(Threw), seen, aggregate)
    /\ UNCHANGED <<call, handler, req, queries, out>>

Next ==
    \/ Reject
    \/ StartDdg
    \/ GetReturns
    \/ PostReturns
    \/ FetchThrows
    \/ StartPlus3
    \/ StoreReturns
    \/ StoreThrows
    \/ StartSitemap
    \/ TopReturns
    \/ ChildReturns
    \/ SitemapNotOk
    \/ SitemapThrows
    \/ Catch

Spec == Init /\ [][Next]_vars

\* the steps the handler takes by itself, without waiting for an upstream
ProgramStep == Reject \/ StartDdg \/ StartPlus3 \/ StartSitemap \/ Catch

\* the event loop runs every continuation that is ready; whether and when an
\* upstream settles a fetch is not the handler's to decide, and no fetch
\* carries a timeout or an abort signal that would settle it
FairSpec == Spec /\ WF_vars(ProgramStep)

----------------------------------------------------------------------------
(* The library functions called by themselves *)

\* hrefs an anchor can carry: nothing, absolute URLs, relative links, and
\* redirect wrappers around each of these, with the uddg value plain,
\* percent-encoded once more, or malformed
PlainHrefs ==
    {NoStr, UrlA, UrlItchProject, UrlOther, AbsWrapperA, RelOther, Wrapper(UrlA, "1")}
Hrefs ==
    PlainHrefs
    \cup {Wrapper([i EXCEPT !.pct = e], r) :
             i \in PlainHrefs, e \in {"", "enc", "bad"}, r \in {"", "1"}}

\* URLs a search result can point to
UrlHosts == {MARKET_HOST, ITCH_HOST, "author.itch.io", "glitch.io", "example.com"}
UrlPaths ==
    { <<>>, <<"icons">>, <<"icons", "devlog">>, <<"t", "unreal">>, <<"store", "x">>,
      <<"marketplace", "en-US", "product", "sword-pack">>,
      <<"marketplace", "en-US", "product", "free-sword-pack">>,
      <<"marketplace", "en-US", "product", "search-tools">>,
      <<"Marketplace", "en-US", "Product", "sword-pack">>,
      <<"marketplace", "en-US", "category", "weapons">>,
      <<"marketplace", "en-US", "free">>,
      <<"marketplace", "en-US", "search">>,
      <<"marketplace", "en-US", "collections", "x">>,
      <<"marketplace", "en-US", "page", "2">>,
      <<"marketplace", "en-US", "assets">> }
Urls == {Abs(h, p) : h \in UrlHosts, p \in UrlPaths} \cup {RelOther}

Fns == {"normalizeHref", "isProductLike1", "isProductLike2", "inferStore"}
ArgsOf(fn) == IF fn = "normalizeHref" THEN Hrefs ELSE Urls

FnInit ==
    /\ handler = "(none)"
    /\ req = [q |-> QMissing, only |-> Absent, price |-> Absent, license |-> Absent]
    /\ pc = "call"
    /\ queries = <<>>
    /\ qi = 0
    /\ aggregate = <<>>
    /\ seen = {}
    /\ children = <<>>
    /\ direct = <<>>
    /\ out = <<>>
    /\ log = <<>>
    /\ resp = NoResponse
    /\ \E fn \in Fns : \E arg \in ArgsOf(fn) : call = [fn |-> fn, arg |-> arg, val |-> <<>>]

FnFrame ==
    UNCHANGED <<handler, req, pc, queries, qi, aggregate, seen, children, direct, out,
                log, resp>>

\* normalizeHref(href), and then normalizeHref of the URL it returned
CallNormalizeHref ==
    /\ call.fn = "normalizeHref"
    /\ \/ /\ call.val = <<>>
          /\ call' = [call EXCEPT !.val = <<normalizeHref(call.arg)>>]
       \/ /\ Len(call.val) = 1
          /\ call.val[1] # Null
          /\ call' = [call EXCEPT !.val = Append(@, normalizeHref(call.val[1]))]
    /\ FnFrame

CallIsProductLike1 ==
    /\ call.fn = "isProductLike1"
    /\ call.val = <<>>
    /\ call' = [call EXCEPT !.val = <<isProductLike1(call.arg)>>]
    /\ FnFrame

CallIsProductLike2 ==
    /\ call.fn = "isProductLike2"
    /\ call.val = <<>>
    /\ call' = [call EXCEPT !.val = <<isProductLike2(call.arg)>>]
    /\ FnFrame

CallInferStore ==
    /\ call.fn = "inferStore"
    /\ call.val = <<>>
    /\ call' = [call EXCEPT !.val = <<inferStore(call.arg)>>]
    /\ FnFrame

FnNext ==
    \/ CallNormalizeHref
    \/ CallIsProductLike1
    \/ CallIsProductLike2
    \/ CallInferStore

FnSpec == FnInit /\ [][FnNext]_vars

----------------------------------------------------------------------------
(* Vocabulary of the properties *)

Sent == resp.status # 0
Succeeded == resp.status = 200

\* the fallback of query k was issued and extracted no candidate
FallbackEmpty(k) ==
    \E i \in DOMAIN log : log[i].kind = "fallback" /\ log[i].of = k /\ log[i].n = 0

\* how many fetches of a kind were issued for query k
Issued(kind, k) == Cardinality({i \in DOMAIN log : log[i].kind = kind /\ log[i].of = k})

\* a primary fetch that extracted nothing is directly followed by the fallback
\* of the same query
FallbackFollows ==
    \A i \in DOMAIN log :
        (log[i].kind = "primary" /\ log[i].n = 0)
            => /\ i < Len(log)
               /\ log[i + 1].kind = "fallback"
               /\ log[i + 1].of = log[i].of

SomeFetchFailed == \E i \in DOMAIN log : log[i].n \in {Threw, NotOk}

FanOutHandlers == {"plus1", "plus2", "plus3", "sitemapA", "sitemapB"}
AssetHandlers == {"assets", "plus1", "plus2", "plus3"}

\* the cap of an assets handler
CapOf(h) == IF h = "assets" THEN MAX_RESULTS_ASSETS ELSE MAX_RESULTS_PLUS

\* the price and license filters as the request asks for them
AsksFree == req.price # Absent /\ LowerWord(req.price) = "free"
AsksPaid == req.price # Absent /\ LowerWord(req.price) = "paid"
PassesFilters(r) ==
    /\ AsksFree => IsFreeTag(r.price)
    /\ AsksPaid => ~IsFreeTag(r.price)
    /\ req.license # Absent => Includes(ToLower(r.license), LowerWord(req.license))

\* every candidate record the extractors produced for this request, before any
\* filter, deduplication or cut
Candidates ==
    CASE handler = "assets" -> AssetItems(aggregate)
      [] handler = "plus3" -> out
      [] OTHER -> aggregate

ResultUrls == {resp.results[i].url : i \in DOMAIN resp.results}

----------------------------------------------------------------------------
(* C1: fallback before an empty answer *)

\* C1 as claimed: in every search-engine handler, for each query: a primary GET
\* that extracts zero candidates is followed by the POST fallback before the
\* response; and once the fallback of a query extracts zero too, the response
\* is a 200 with count 0.
C1_AsClaimed ==
    handler \in DdgHandlers =>
        /\ FallbackFollows
        /\ Sent => \A k \in DOMAIN queries :
                       FallbackEmpty(k) => resp.status = 200 /\ resp.count = 0

\* C1 amended: a primary GET that extracts zero candidates is directly followed
\* by the POST fallback of the same query; a query whose fallback extracts zero
\* candidates too is not an error: the handler goes on to the next query or
\* answers 200; and when that happens for every query of the request, the
\* response is a 200 with count 0 and no results.
C1_FallbackThenEmptySuccess ==
    handler \in DdgHandlers =>
        /\ FallbackFollows
        /\ \A k \in DOMAIN queries :
              FallbackEmpty(k) => Issued("primary", k + 1) = 1 \/ Succeeded
        /\ (queries # <<>> /\ \A k \in DOMAIN queries : FallbackEmpty(k))
              => resp = Ok(<<>>, 0)

\* a three-query request whose six fetches all came back empty, answered
C1_Witness ==
    /\ handler = "plus2"
    /\ Len(queries) = 3
    /\ \A k \in DOMAIN queries : FallbackEmpty(k)
    /\ Succeeded

----------------------------------------------------------------------------
(* C2: a failed source is not fatal *)

\* C2 as claimed: in a handler that fans out to several sources, a fetch that
\* fails (network error or non-2xx) never turns the request into a 5xx: the
\* response is a success built from the other sources.
C2_AsClaimed ==
    (handler \in FanOutHandlers /\ Sent /\ SomeFetchFailed) => Succeeded

----------------------------------------------------------------------------
(* C3: no two results share a url *)

\* C3 as claimed: in every success response of every search handler, no two
\* entries of results have the same url.
C3_AsClaimed ==
    Succeeded =>
        \A i \in DOMAIN resp.results : \A j \in DOMAIN resp.results :
            i # j => resp.results[i].url # resp.results[j].url

----------------------------------------------------------------------------
(* C4: only classified product pages reach the aggregation *)

\* C4 as claimed: in the multi-store assets handlers, no record handed to the
\* filter/dedupe/sort stage has store other or a URL that is not product-like,
\* whichever extractor produced it.
C4_AsClaimed ==
    handler \in PlusHandlers =>
        \A i \in DOMAIN aggregate :
            /\ inferStore(aggregate[i].url) # "other"
            /\ isProductLike(handler, aggregate[i].url)

----------------------------------------------------------------------------
(* C5: only=marketplace *)

\* C5 as claimed: with only=marketplace every result is a URL on the
\* marketplace host whose path is /product/-shaped.
C5_AsClaimed ==
    (handler \in PlusHandlers /\ Succeeded /\ req.only = "marketplace") =>
        \A u \in ResultUrls : u.host = MARKET_HOST /\ MarketProductPath(u.path)

----------------------------------------------------------------------------
(* C6: the filters *)

\* C6 as claimed: every result satisfies the filters requested: with price=free
\* every price tag is a Free tag, with price=paid none is, with a license given
\* every license tag contains it; with price any or absent no record is removed
\* because of its price tag.
C6_AsClaimed ==
    (handler \in AssetHandlers /\ Succeeded) =>
        /\ \A i \in DOMAIN resp.results : PassesFilters(resp.results[i])
        /\ (req.price \in {Absent, "any"} /\ Len(resp.results) < CapOf(handler))
              => \A i \in DOMAIN Candidates :
                     PassesFilters(Candidates[i]) => Candidates[i].url \in ResultUrls

----------------------------------------------------------------------------
(* C7: the cut comes last *)

\* C7 as claimed: the cut to MAX is the last stage, so a record that passes the
\* filters is never lost to an earlier cut while fewer than MAX records are
\* returned; and never more than MAX are returned.
C7_AsClaimed ==
    (handler \in AssetHandlers /\ Succeeded) =>
        /\ Len(resp.results) <= CapOf(handler)
        /\ Len(resp.results) < CapOf(handler)
              => \A i \in DOMAIN Candidates :
                     PassesFilters(Candidates[i]) => Candidates[i].url \in ResultUrls

----------------------------------------------------------------------------
(* C8: at most three children of a sitemap index *)

\* the sitemap indexes among the top-level sitemaps of the request
IndexesOfRequest == {k \in DOMAIN queries : TopDoc(queries[k]).index # <<>>}

PagesOf(loc) == Range(TopDoc(loc).urlset)

\* C8 as claimed: for each top-level sitemap that is an index, only its first 3
\* children in document order are fetched, and a page listed only in a 4th or
\* later child never appears in results.
C8_AsClaimed ==
    handler \in SitemapHandlers =>
        /\ \A i \in DOMAIN log :
              log[i].kind = "child" =>
                  \E p \in 1..MAX_CHILDREN :
                      /\ p <= Len(TopDoc(queries[log[i].of]).index)
                      /\ TopDoc(queries[log[i].of]).index[p] = log[i].target
        /\ \A k \in DOMAIN queries : Issued("child", k) <= MAX_CHILDREN
        /\ Succeeded =>
              \A u \in ResultUrls :
                  \A k \in IndexesOfRequest :
                      \A p \in 4..Len(TopDoc(queries[k]).index) :
                          u \in PagesOf(TopDoc(queries[k]).index[p])
                             => \/ \E k2 \in DOMAIN queries : u \in PagesOf(queries[k2])
                                \/ \E k2 \in IndexesOfRequest : \E p2 \in 1..MAX_CHILDREN :
                                       /\ p2 <= Len(TopDoc(queries[k2]).index)
                                       /\ u \in PagesOf(TopDoc(queries[k2]).index[p2])

----------------------------------------------------------------------------
(* C9: a missing or too short q *)

\* C9: for every search handler, a request whose q is missing or whose trimmed
\* length is below 2 is answered 400, and no upstream fetch is ever issued for it.
C9_BadQueryRejected ==
    req.q \in BadQs =>
        /\ log = <<>>
        /\ Sent => resp = Error(400)

\* a q of three characters that trims to one has been refused
C9_Witness ==
    /\ req.q = <<" ", "a", " ">>
    /\ resp.status = 400

----------------------------------------------------------------------------
(* C10: at most one retry per query *)

\* C10: in the search-engine handlers every query gets at most one primary GET
\* and at most one POST fallback; a fallback directly follows the primary GET
\* of the same query, which extracted zero candidates; and a query answered in
\* a success response got exactly one primary GET.
C10_AtMostOneRetry ==
    handler \in DdgHandlers =>
        /\ \A k \in DOMAIN queries :
              /\ Issued("primary", k) <= 1
              /\ Issued("fallback", k) <= 1
              /\ Succeeded => Issued("primary", k) = 1
        /\ \A i \in DOMAIN log :
              /\ log[i].of \in DOMAIN queries
              /\ log[i].kind \in {"primary", "fallback"}
              /\ log[i].kind = "fallback" =>
                    /\ i > 1
                    /\ log[i - 1].kind = "primary"
                    /\ log[i - 1].of = log[i].of
                    /\ log[i - 1].n = 0

\* a request answered after a query used both its GET and its fallback, and
\* another query only its GET
C10_Witness ==
    /\ handler \in DdgHandlers
    /\ Succeeded
    /\ \E k \in DOMAIN queries : Issued("fallback", k) = 1 /\ Issued("primary", k) = 1
    /\ \E k \in DOMAIN queries : Issued("fallback", k) = 0 /\ Issued("primary", k) = 1

----------------------------------------------------------------------------
(* C11: every request is answered *)

\* C11 as claimed: every fetch is bounded by a timeout, so a request that has
\* issued a fetch eventually gets its response (success or error), even when
\* the upstream never answers that fetch.
C11_AsClaimed == (log # <<>>) ~> Sent

----------------------------------------------------------------------------
(* C12: canonical absolute urls *)

\* a redirect wrapper of the search engine: a /l/ link carrying its destination
\* in the uddg parameter
IsWrapperUrl(u) == u.host = DDG_HOST /\ u.path = <<"l", "">> /\ u.uddg # <<>>

\* C12 as claimed: in every success response every result's url is an absolute
\* URL and is never a redirect wrapper of the search engine, whether the href
\* arrived relative or absolute, and also for the hrefs of searchItch.
C12_AsClaimed ==
    Succeeded => \A u \in ResultUrls : u.form = "abs" /\ ~IsWrapperUrl(u)

----------------------------------------------------------------------------
(* C13: count *)

\* C13 as claimed: in every success response count is the number of entries
\* of results.
C13_AsClaimed == Succeeded => resp.count = Len(resp.results)

----------------------------------------------------------------------------
(* C14: normalizeHref applied twice *)

\* C14 as claimed: normalizeHref is idempotent on its successes: when
\* normalizeHref(h) returns a URL u, normalizeHref(u) returns u, also for
\* wrappers whose uddg value is relative or is itself a wrapper.
C14_AsClaimed ==
    (call.fn = "normalizeHref" /\ Len(call.val) = 2) => call.val[2] = call.val[1]

----------------------------------------------------------------------------
(* C15: isProductLike *)

\* /marketplace/<locale>/product/<slug> on the marketplace host
IsMarketProductUrl(u) ==
    /\ u.form = "abs"
    /\ u.host = MARKET_HOST
    /\ Len(u.path) = 4
    /\ u.path[1] = "marketplace"
    /\ u.path[3] = "product"
    /\ u.path[4] # ""

\* any other path under /marketplace/ on the marketplace host
IsMarketListingUrl(u) ==
    /\ u.form = "abs"
    /\ u.host = MARKET_HOST
    /\ Len(u.path) >= 2
    /\ u.path[1] = "marketplace"
    /\ ~IsMarketProductUrl(u)

\* a creator subdomain of itch.io
IsItchCreatorHost(h) == h = "author.itch.io"

IsItchTagPath(path) == Len(path) >= 2 /\ path[1] = "t"

\* C15 as claimed: on the marketplace host isProductLike is false for every
\* listing-style URL and true for every /marketplace/<locale>/product/<slug>
\* URL, whatever the slug; on itch.io it is false for every root-host URL and
\* every /t/ tag URL, and true for every creator-subdomain URL of path depth
\* at most 1.
C15_AsClaimed ==
    (call.fn \in {"isProductLike1", "isProductLike2"} /\ call.val # <<>>) =>
        LET u == call.arg
            v == call.val[1]
        IN /\ IsMarketListingUrl(u) => v = FALSE
           /\ IsMarketProductUrl(u) => v = TRUE
           /\ (u.form = "abs" /\ u.host = ITCH_HOST) => v = FALSE
           /\ (u.form = "abs" /\ IsItchCreatorHost(u.host) /\ IsItchTagPath(u.path))
                 => v = FALSE
           /\ (u.form = "abs" /\ IsItchCreatorHost(u.host) /\ ~IsItchTagPath(u.path)
                 /\ Depth(u.path) <= 1) => v = TRUE

----------------------------------------------------------------------------
(* C16: inferStore *)

\* C16 as claimed: inferStore depends on the hostname only: two URLs with the
\* same hostname get the same store; the store is marketplace exactly when the
\* hostname is the marketplace host, and itch exactly when the hostname is
\* itch.io or a subdomain of it (glitch.io is other).
C16_AsClaimed ==
    (call.fn = "inferStore" /\ call.val # <<>> /\ call.arg.form = "abs") =>
        LET u == call.arg
            s == call.val[1]
        IN /\ s = "marketplace" <=> u.host = MARKET_HOST
           /\ s = "itch" <=> (u.host = ITCH_HOST \/ IsItchCreatorHost(u.host))
           /\ \A w \in Urls : (w.form = "abs" /\ w.host = u.host) => inferStore(w) = s

----------------------------------------------------------------------------
(* C17: the order of the assets_plus results *)

\* key(a) <= key(b) for the key (store rank, price rank, title)
KeyLeq(a, b) ==
    \/ storeRank(a.store) < storeRank(b.store)
    \/ /\ storeRank(a.store) = storeRank(b.store)
       /\ \/ priceRank(a.price) < priceRank(b.price)
          \/ /\ priceRank(a.price) = priceRank(b.price)
             /\ localeCompare(a.title, b.title) <= 0

\* C17: in the assets_plus handlers the returned list is sorted by the key
\* (store rank: marketplace, itch, other; price rank: Free-tagged first; title
\* alphabetical): every entry's key is at most the key of the entry after it.
C17_ResultsSorted ==
    (handler \in PlusHandlers /\ Succeeded) =>
        \A i \in 1..(Len(resp.results) - 1) :
            KeyLeq(resp.results[i], resp.results[i + 1])

\* a response in which the sort moved a Free-tagged record in front of a record
\* of the same store that was collected before it
C17_Witness ==
    /\ handler \in PlusHandlers
    /\ Succeeded
    /\ \E i \in DOMAIN aggregate : \E j \in DOMAIN aggregate :
          /\ i < j
          /\ \E a \in DOMAIN resp.results : \E b \in DOMAIN resp.results :
                /\ a < b
                /\ resp.results[a] = aggregate[j]
                /\ resp.results[b] = aggregate[i]
                /\ storeRank(aggregate[j].store) = storeRank(aggregate[i].store)
                /\ priceRank(aggregate[j].price) < priceRank(aggregate[i].price)

----------------------------------------------------------------------------
(* C18: the order of the sitemap results *)

\* the record found k1-th comes before the record found k2-th: higher score, or
\* equal score and found earlier
ComesBefore(k1, k2) ==
    \/ aggregate[k1].score > aggregate[k2].score
    \/ aggregate[k1].score = aggregate[k2].score /\ k1 < k2

\* C18: in the sitemap handlers the returned list is in descending score order
\* with ties in discovery order, and it is the first 10 entries of that
\* ordering: the i-th result is the record found that has exactly i-1 records
\* found before it in that ordering.
C18_ScoreOrder ==
    (handler \in SitemapHandlers /\ Succeeded) =>
        /\ Len(resp.results) =
              (IF Len(aggregate) < MAX_FOUND THEN Len(aggregate) ELSE MAX_FOUND)
        /\ \A i \in DOMAIN resp.results :
              \E k \in DOMAIN aggregate :
                  /\ aggregate[k].url = resp.results[i].url
                  /\ Cardinality({k1 \in DOMAIN aggregate : ComesBefore(k1, k)}) = i - 1

\* a response cut to 10 in which a record found later was moved in front by its
\* higher score, and two records of equal score are both returned
C18_Witness ==
    /\ handler \in SitemapHandlers
    /\ Succeeded
    /\ Len(aggregate) > MAX_FOUND
    /\ \E i \in DOMAIN resp.results : \E j \in DOMAIN resp.results :
          \E ki \in DOMAIN aggregate : \E kj \in DOMAIN aggregate :
              /\ i < j
              /\ aggregate[ki].url = resp.results[i].url
              /\ aggregate[kj].url = resp.results[j].url
              /\ ki > kj
              /\ aggregate[ki].score > aggregate[kj].score
    /\ \E i \in DOMAIN resp.results : \E j \in DOMAIN resp.results :
          \E ki \in DOMAIN aggregate : \E kj \in DOMAIN aggregate :
              /\ i < j
              /\ aggregate[ki].url = resp.results[i].url
              /\ aggregate[kj].url = resp.results[j].url
              /\ aggregate[ki].score = aggregate[kj].score

----------------------------------------------------------------------------
(* C19: what a sitemap result has to do with the query *)

\* the text of a returned result contains the term
ResultHasTerm(r, t) == Includes(ScoreText(r.url, r.title), t)

----------------------------------------------------------------------------
(* C20: where the sitemap candidates come from *)

\* the child sitemap locations listed by the indexes among the sitemaps of the
\* request that were answered
ListedChildren ==
    UNION { Range(TopDoc(queries[k]).index) :
              k \in {n \in DOMAIN queries :
                        \E i \in DOMAIN log : /\ log[i].kind = "sitemap"
                                              /\ log[i].target = queries[n]
                                              /\ log[i].n >= 0} }

\* C20: in the sitemap handlers only the page locations of a urlset become
\* candidates; a child sitemap location listed in an index is only fetched
\* and never appears in results.
C20_AsClaimed ==
    (handler \in SitemapHandlers /\ Succeeded) =>
        ResultUrls \cap ListedChildren = {}

====
